---- MODULE Spec2Model ----
(***************************************************************************)
(* icu4c/source/data/buildtool/__init__.py: the tag vocabulary of the ICU  *)
(* data build tool.  The module is seven collections.namedtuple            *)
(* declarations, so its behaviour is that of Python's namedtuple: a        *)
(* subclass of tuple with one named field, whose comparison, hashing,      *)
(* attribute assignment and _replace are the ones tuple / namedtuple give. *)
(***************************************************************************)
EXTENDS Integers, Sequences, FiniteSets, TLC

VARIABLES heap, born, pyset, last, thr, agree, hashseed

vars == <<heap, born, pyset, last, thr, agree, hashseed>>

(***************************************************************************)
(* Bounds of the model.                                                    *)
(***************************************************************************)
\* records that may be constructed in one run
MaxObjs == 2

\* hash values are 0 .. HashMod-1 (Python: a machine word)
HashMod == 2

\* the threads of the concurrent specification
Threads == {"t1", "t2"}

(***************************************************************************)
(* Python values that are passed to the constructors, and that the         *)
(* operations return.  A value is [kind, s, n]; only the component its     *)
(* kind uses is significant.                                               *)
(***************************************************************************)
StrV(s) == [kind |-> "str", s |-> s, n |-> 0]
IntV(n) == [kind |-> "int", s |-> "", n |-> n]
BoolV(b) == [kind |-> "bool", s |-> "", n |-> IF b THEN 1 ELSE 0]
ListV == [kind |-> "list", s |-> "", n |-> 0]
NoneV == [kind |-> "NoneType", s |-> "", n |-> 0]

\* the values handed to the constructors: the empty string, another
\* string, and a value that is no string and is not hashable (the list [])
Values == {StrV(""), StrV("x"), ListV}

IsNumber(v) == v.kind \in {"int", "bool"}

\* a == b on Python values: True == 1, strings by content, [] == []
PyEq(a, b) ==
    IF IsNumber(a) /\ IsNumber(b) THEN a.n = b.n
    ELSE a.kind = b.kind /\ a.s = b.s /\ a.n = b.n

PyHashable(v) == v.kind # "list"

\* hash(v): hash("") is 0, the hash of any other string depends on the
\* process's hash seed; a number hashes to itself
PyHash(v, seed) ==
    CASE v.kind = "str" -> (IF v.s = "" THEN 0 ELSE seed)
      [] IsNumber(v) -> v.n % HashMod
      [] OTHER -> 0

(***************************************************************************)
(* collections.namedtuple and the seven declarations.                      *)
(***************************************************************************)
namedtuple(typename, field_names) ==
    [typename |-> typename, fields |-> field_names]

InFile == namedtuple("InFile", <<"filename">>)
TmpFile == namedtuple("TmpFile", <<"filename">>)
OutFile == namedtuple("OutFile", <<"filename">>)
PkgFile == namedtuple("PkgFile", <<"filename">>)

IcuTool == namedtuple("IcuTool", <<"name">>)
SystemTool == namedtuple("SystemTool", <<"name">>)

DepTargetAsFile == namedtuple("DepTarget", <<"filename">>)

DepTarget == namedtuple("DepTarget", <<"name">>)

\* the types the module defines
Variants == {InFile, TmpFile, OutFile, PkgFile, IcuTool, SystemTool, DepTarget}

\* the builtin tuple type, for comparisons with plain tuples
TupleType == [typename |-> "tuple", fields |-> <<>>]

PlainTuple(v) == [cls |-> TupleType, items |-> <<v>>]

\* attribute names a caller may use
AttrNames == {"filename", "name"}

NoObj == [cls |-> TupleType, items |-> <<>>]

(***************************************************************************)
(* Operations of a namedtuple type, as functions of the objects.           *)
(***************************************************************************)
\* cls(v): __new__ packs its one positional argument into the tuple; it
\* looks at the argument no further
NewStrict(cls, v) ==
    IF v.kind = "str"
    THEN [exc |-> "", obj |-> [cls |-> cls, items |-> <<v>>]]
    ELSE [exc |-> "TypeError", obj |-> NoObj]

New(cls, v) == [exc |-> "", obj |-> [cls |-> cls, items |-> <<v>>]]

\* position of a field name among the type's fields, 0 when it is none
FieldIndex(cls, name) ==
    IF \E i \in 1..Len(cls.fields) : cls.fields[i] = name
    THEN CHOOSE i \in 1..Len(cls.fields) : cls.fields[i] = name
    ELSE 0

\* o.<name>: the field's property reads the tuple item; any other name
\* raises AttributeError
GetAttrFalsy(o, name) ==
    IF FieldIndex(o.cls, name) = 0 THEN [exc |-> "AttributeError", val |-> NoneV]
    ELSE IF o.items[FieldIndex(o.cls, name)] = StrV("") THEN [exc |-> "", val |-> NoneV]
    ELSE [exc |-> "", val |-> o.items[FieldIndex(o.cls, name)]]

GetAttr(o, name) ==
    IF FieldIndex(o.cls, name) # 0
    THEN [exc |-> "", val |-> o.items[FieldIndex(o.cls, name)]]
    ELSE [exc |-> "AttributeError", val |-> NoneV]

\* x == y is tuple.__eq__: same length and equal items; the types of the
\* two tuples take no part in it
TupleEqTyped(x, y) ==
    /\ x.cls = y.cls
    /\ Len(x.items) = Len(y.items)
    /\ \A i \in 1..Len(x.items) : PyEq(x.items[i], y.items[i])

TupleEqLengths(x, y) == Len(x.items) = Len(y.items)

TupleEq(x, y) ==
    /\ Len(x.items) = Len(y.items)
    /\ \A i \in 1..Len(x.items) : PyEq(x.items[i], y.items[i])

\* hash(x) is tuple.__hash__: a mix of the items' hashes; TypeError when
\* an item is unhashable
RECURSIVE MixHash(_, _, _)
MixHash(items, acc, seed) ==
    IF items = <<>> THEN acc
    ELSE MixHash(Tail(items), (acc * 3 + PyHash(Head(items), seed) + 1) % HashMod, seed)

TupleHash(x, seed) ==
    IF \A i \in 1..Len(x.items) : PyHashable(x.items[i])
    THEN [exc |-> "", val |-> IntV(MixHash(x.items, 0, seed))]
    ELSE [exc |-> "TypeError", val |-> NoneV]

\* o.<name> = v: the type has __slots__ = () and read-only properties, so
\* every assignment raises AttributeError and the object stays as it is
SetAttrWrites(o, name, v) ==
    IF FieldIndex(o.cls, name) # 0
    THEN [exc |-> "", obj |-> [o EXCEPT !.items[FieldIndex(o.cls, name)] = v]]
    ELSE [exc |-> "AttributeError", obj |-> o]

SetAttr(o, name, v) == [exc |-> "AttributeError", obj |-> o]

\* o._replace(<name>=v): a new object of o's type with the field replaced;
\* ValueError for a name that is no field
ReplaceAsTuple(o, name, v) ==
    IF FieldIndex(o.cls, name) # 0
    THEN [exc |-> "",
          obj |-> [cls |-> TupleType,
                   items |-> [o.items EXCEPT ![FieldIndex(o.cls, name)] = v]]]
    ELSE [exc |-> "ValueError", obj |-> NoObj]

Replace(o, name, v) ==
    IF FieldIndex(o.cls, name) # 0
    THEN [exc |-> "",
          obj |-> [cls |-> o.cls,
                   items |-> [o.items EXCEPT ![FieldIndex(o.cls, name)] = v]]]
    ELSE [exc |-> "ValueError", obj |-> NoObj]

\* set.add(o) on a set whose members are the heap objects `keys`: o is
\* added unless a member with the same hash compares equal to it
SetAddIdentity(h, keys, a, seed) == keys \cup {a}

SetAdd(h, keys, a, seed) ==
    IF \E k \in keys : /\ TupleHash(h[k], seed).val = TupleHash(h[a], seed).val
                       /\ (k = a \/ TupleEq(h[k], h[a]))
    THEN keys
    ELSE keys \cup {a}

(***************************************************************************)
(* State.  heap: the records constructed so far, by reference 1..Len.      *)
(* born: for each reference, the type and argument it was constructed      *)
(* with.  pyset: the references that are members of one Python set.        *)
(* last: the most recent operation of the sequential caller and what it    *)
(* returned.  thr: what each thread is in the middle of.  agree: whether   *)
(* the operations the threads finished returned what they return when run  *)
(* alone.  hashseed: the string hash seed of the process.                  *)
(***************************************************************************)
Refs == 1..Len(heap)

Result(op, a, b, name, arg, exc, val, ref) ==
    [op |-> op, a |-> a, b |-> b, name |-> name, arg |-> arg,
     exc |-> exc, val |-> val, ref |-> ref]

Idle == [pc |-> "idle", a |-> 0, b |-> 0, tmp |-> <<>>]

InitSeeded(seeds) ==
    /\ heap = <<>>
    /\ born = <<>>
    /\ pyset = {}
    /\ last = Result("none", 0, 0, "", NoneV, "", NoneV, 0)
    /\ thr = [t \in Threads |-> Idle]
    /\ agree = TRUE
    /\ hashseed \in seeds

\* hash randomisation off
Init == InitSeeded({0})

\* any hash seed
InitAnySeed == InitSeeded(0..(HashMod - 1))

(***************************************************************************)
(* Operations of a single caller.                                          *)
(***************************************************************************)
\* r = cls(v)
Construct(cls, v) ==
    /\ Len(heap) < MaxObjs
    /\ LET r == New(cls, v) IN
       IF r.exc = ""
       THEN /\ heap' = Append(heap, r.obj)
            /\ born' = Append(born, [cls |-> cls, items |-> <<v>>])
            /\ last' = Result("construct", 0, 0, "", NoneV, "", NoneV, Len(heap) + 1)
       ELSE /\ UNCHANGED <<heap, born>>
            /\ last' = Result("construct", 0, 0, "", NoneV, r.exc, NoneV, 0)
    /\ UNCHANGED <<pyset, thr, agree, hashseed>>

\* heap[a].<name>
ReadField(a, name) ==
    /\ LET r == GetAttr(heap[a], name) IN
       last' = Result("getattr", a, 0, name, NoneV, r.exc, r.val, 0)
    /\ UNCHANGED <<heap, born, pyset, thr, agree, hashseed>>

\* heap[a] == heap[b]
Compare(a, b) ==
    /\ last' = Result("eq", a, b, "", NoneV, "", BoolV(TupleEq(heap[a], heap[b])), 0)
    /\ UNCHANGED <<heap, born, pyset, thr, agree, hashseed>>

\* heap[a] == (v,)
CompareTuple(a, v) ==
    /\ last' = Result("eq_tuple", a, 0, "", v, "",
                      BoolV(TupleEq(heap[a], PlainTuple(v))), 0)
    /\ UNCHANGED <<heap, born, pyset, thr, agree, hashseed>>

\* hash(heap[a])
Hash(a) ==
    /\ LET r == TupleHash(heap[a], hashseed) IN
       last' = Result("hash", a, 0, "", NoneV, r.exc, r.val, 0)
    /\ UNCHANGED <<heap, born, pyset, thr, agree, hashseed>>

\* heap[a].<name> = v
AssignField(a, name, v) ==
    /\ LET r == SetAttr(heap[a], name, v) IN
       /\ heap' = [heap EXCEPT ![a] = r.obj]
       /\ last' = Result("setattr", a, 0, name, NoneV, r.exc, NoneV, 0)
    /\ UNCHANGED <<born, pyset, thr, agree, hashseed>>

\* r = heap[a]._replace(<name>=v)
ReplaceField(a, name, v) ==
    /\ LET r == Replace(heap[a], name, v) IN
       IF r.exc = ""
       THEN /\ Len(heap) < MaxObjs
            /\ heap' = Append(heap, r.obj)
            /\ born' = Append(born, r.obj)
            /\ last' = Result("_replace", a, 0, name, v, "", NoneV, Len(heap) + 1)
       ELSE /\ UNCHANGED <<heap, born>>
            /\ last' = Result("_replace", a, 0, name, NoneV, r.exc, NoneV, 0)
    /\ UNCHANGED <<pyset, thr, agree, hashseed>>

\* the_set.add(heap[a]): hashing the record comes first
AddToSet(a) ==
    /\ LET r == TupleHash(heap[a], hashseed) IN
       IF r.exc = ""
       THEN /\ pyset' = SetAdd(heap, pyset, a, hashseed)
            /\ last' = Result("add", a, 0, "", NoneV, "", NoneV, 0)
       ELSE /\ UNCHANGED pyset
            /\ last' = Result("add", a, 0, "", NoneV, r.exc, NoneV, 0)
    /\ UNCHANGED <<heap, born, thr, agree, hashseed>>

\* construction, field reads and comparisons, also with plain tuples
Next ==
    \/ \E cls \in Variants, v \in Values : Construct(cls, v)
    \/ \E a \in Refs, name \in AttrNames : ReadField(a, name)
    \/ \E a \in Refs, b \in Refs : Compare(a, b)
    \/ \E a \in Refs, v \in Values : CompareTuple(a, v)

Spec == Init /\ [][Next]_vars

\* construction, field reads, and the two ways to try to change a record
NextMut ==
    \/ \E cls \in Variants, v \in Values : Construct(cls, v)
    \/ \E a \in Refs, name \in AttrNames : ReadField(a, name)
    \/ \E a \in Refs, name \in AttrNames, v \in Values : AssignField(a, name, v)
    \/ \E a \in Refs, name \in AttrNames, v \in Values : ReplaceField(a, name, v)

SpecMut == Init /\ [][NextMut]_vars

\* records as members of a set, and their hashes
NextSet ==
    \/ \E cls \in Variants, v \in Values : Construct(cls, v)
    \/ \E a \in Refs : Hash(a)
    \/ \E a \in Refs : AddToSet(a)

SpecSet == InitAnySeed /\ [][NextSet]_vars

(***************************************************************************)
(* The same operations run by several threads on the shared heap.  A       *)
(* comparison reads its left operand's items in one step and its right     *)
(* operand's in a later one; the other operations read a single record     *)
(* once.  agree compares what each finished operation returned with what   *)
(* it returns on the records as they were constructed.                     *)
(***************************************************************************)
Judge(ok) == agree /\ ok

TConstruct(t, cls, v) ==
    /\ thr[t].pc = "idle"
    /\ Len(heap) < MaxObjs
    /\ New(cls, v).exc = ""
    /\ heap' = Append(heap, New(cls, v).obj)
    /\ born' = Append(born, [cls |-> cls, items |-> <<v>>])
    /\ UNCHANGED <<pyset, last, thr, agree, hashseed>>

TReadField(t, a, name) ==
    /\ thr[t].pc = "idle"
    /\ agree' = Judge(GetAttr(heap[a], name) = GetAttr(born[a], name))
    /\ UNCHANGED <<heap, born, pyset, last, thr, hashseed>>

THash(t, a) ==
    /\ thr[t].pc = "idle"
    /\ agree' = Judge(TupleHash(heap[a], hashseed) = TupleHash(born[a], hashseed))
    /\ UNCHANGED <<heap, born, pyset, last, thr, hashseed>>

TAssignField(t, a, name, v) ==
    /\ thr[t].pc = "idle"
    /\ heap' = [heap EXCEPT ![a] = SetAttr(heap[a], name, v).obj]
    /\ UNCHANGED <<born, pyset, last, thr, agree, hashseed>>

TCompareBegin(t, a, b) ==
    /\ thr[t].pc = "idle"
    /\ thr' = [thr EXCEPT ![t] = [pc |-> "half", a |-> a, b |-> b,
                                  tmp |-> heap[a].items]]
    /\ UNCHANGED <<heap, born, pyset, last, agree, hashseed>>

TCompareEnd(t) ==
    /\ thr[t].pc = "half"
    /\ LET left == [cls |-> heap[thr[t].a].cls, items |-> thr[t].tmp] IN
       agree' = Judge(TupleEq(left, heap[thr[t].b])
                      = TupleEq(born[thr[t].a], born[thr[t].b]))
    /\ thr' = [thr EXCEPT ![t] = Idle]
    /\ UNCHANGED <<heap, born, pyset, last, hashseed>>

NextConc ==
    \E t \in Threads :
        \/ \E cls \in Variants, v \in Values : TConstruct(t, cls, v)
        \/ \E a \in Refs, name \in AttrNames : TReadField(t, a, name)
        \/ \E a \in Refs : THash(t, a)
        \/ \E a \in Refs, name \in AttrNames, v \in Values : TAssignField(t, a, name, v)
        \/ \E a \in Refs, b \in Refs : TCompareBegin(t, a, b)
        \/ TCompareEnd(t)

SpecConc == Init /\ [][NextConc]_vars

(***************************************************************************)
(* Properties.                                                             *)
(***************************************************************************)
\* the field the documentation gives each type
DocField(cls) ==
    IF cls.typename \in {"InFile", "TmpFile", "OutFile", "PkgFile"}
    THEN "filename" ELSE "name"

FileKinds == {V \in Variants : V.fields = <<"filename">>}

NameKinds == {V \in Variants : V.fields = <<"name">>}

\* C1 as stated: a comparison of two records of different types built from
\* the same value never returns True.
OrigC1 ==
    (/\ last.op = "eq"
     /\ born[last.a].cls # born[last.b].cls
     /\ born[last.a].items = born[last.b].items)
    => last.val = BoolV(FALSE)

OrigC3 ==
    /\ \A r \in Refs : heap[r].cls \in Variants
    /\ Cardinality(Variants) = 8
    /\ Cardinality(FileKinds) = 4
    /\ Cardinality(NameKinds) = 4

\* C3 amended: seven types, four with the single field filename and three
\* with the single field name; the constructor of each takes one argument,
\* which becomes the record's only item, readable under that field name.
TheoremC3 ==
    /\ Cardinality(Variants) = 7
    /\ Cardinality(FileKinds) = 4
    /\ Cardinality(NameKinds) = 3
    /\ \A V \in Variants : V.fields = <<DocField(V)>>
    /\ \A r \in Refs : /\ heap[r].cls \in Variants
                       /\ Len(heap[r].items) = Len(heap[r].cls.fields)
                       /\ Len(heap[r].items) = 1
    /\ last.op = "construct" => last.exc = ""

WitnessC3 ==
    /\ Len(heap) = 2
    /\ heap[1].cls = DepTarget
    /\ heap[2].cls = PkgFile
    /\ last.op = "getattr" /\ last.a = 1 /\ last.name = "name" /\ last.exc = ""

\* C4: reading the documented field of a record built from a string
\* returns that very string, the empty string included.
TheoremC4 ==
    (/\ last.op = "getattr"
     /\ last.name = DocField(born[last.a].cls)
     /\ born[last.a].items[1].kind = "str")
    => (last.exc = "" /\ last.val = born[last.a].items[1])

WitnessC4 ==
    /\ last.op = "getattr"
    /\ born[last.a] = [cls |-> IcuTool, items |-> <<StrV("")>>]
    /\ last.name = "name"
    /\ last.val = StrV("")

\* C5: a record of a hashable value can be added to a set; after an add the
\* set holds exactly one member equal to the record added, however often
\* equal records were added before; and records that compare equal have
\* equal hashes.
TheoremC5 ==
    /\ (last.op = "add" /\ PyHashable(born[last.a].items[1]))
       => /\ last.exc = ""
          /\ Cardinality({k \in pyset : TupleEq(heap[k], heap[last.a])}) = 1
    /\ \A k \in pyset : \A j \in pyset : TupleEq(heap[k], heap[j]) => k = j
    /\ \A a \in Refs : \A b \in Refs :
          (/\ born[a].cls = born[b].cls
           /\ PyHashable(born[a].items[1])
           /\ PyEq(born[a].items[1], born[b].items[1]))
          => /\ TupleHash(heap[a], hashseed).exc = ""
             /\ TupleHash(heap[a], hashseed) = TupleHash(heap[b], hashseed)
    /\ last.op = "hash"
       => last.val = TupleHash(born[last.a], hashseed).val

WitnessC5 ==
    /\ last.op = "add" /\ last.a = 2 /\ last.exc = ""
    /\ born[1] = [cls |-> DepTarget, items |-> <<StrV("x")>>]
    /\ born[2] = born[1]
    /\ pyset = {1}

\* C6: a record keeps the type and the field value it was constructed
\* with: every reachable heap equals the heap as constructed, an attempted
\* assignment raises AttributeError, and a field read returns the value
\* given at construction.
TheoremC6 ==
    /\ heap = born
    /\ last.op = "setattr" => last.exc = "AttributeError"
    /\ (last.op = "getattr" /\ last.exc = "")
       => last.val = born[last.a].items[1]

WitnessC6 ==
    /\ last.op = "setattr"
    /\ last.name = DocField(born[last.a].cls)
    /\ Len(heap) = 2
    /\ born[2].cls = born[1].cls
    /\ born[2].items # born[1].items

\* C7: every construction returns a record, whatever the argument; reading
\* the documented field of a record never raises.
TheoremC7 ==
    /\ last.op = "construct"
       => /\ last.exc = ""
          /\ last.ref = Len(heap)
          /\ heap[last.ref] = born[last.ref]
    /\ (last.op = "getattr" /\ last.name = DocField(born[last.a].cls))
       => last.exc = ""
    /\ \A r \in Refs : GetAttr(heap[r], DocField(born[r].cls)).exc = ""

WitnessC7 ==
    /\ last.op = "construct"
    /\ last.exc = ""
    /\ born[last.ref] = [cls |-> SystemTool, items |-> <<ListV>>]

\* C8: whatever the interleaving of the threads' constructions, field
\* reads, comparisons and hashes (and attempted assignments), every
\* finished operation has returned what it returns on the records as
\* constructed, and every record is as it was constructed.
TheoremC8 ==
    /\ agree
    /\ heap = born
    /\ \A t \in Threads :
          thr[t].pc = "half" => thr[t].tmp = born[thr[t].a].items

WitnessC8 ==
    /\ Len(heap) = 2
    /\ thr["t1"].pc = "half" /\ thr["t1"].a = 1 /\ thr["t1"].b = 2
    /\ thr["t2"].pc = "half" /\ thr["t2"].a = 2 /\ thr["t2"].b = 1
    /\ agree

\* C9: a record equals the plain tuple of its value and has that tuple's
\* hash; two records of different types built from equal values compare
\* equal, hash alike, and are one key of a set.
TheoremC9 ==
    /\ \A r \in Refs :
          /\ TupleEq(heap[r], PlainTuple(born[r].items[1]))
          /\ TupleHash(heap[r], hashseed)
               = TupleHash(PlainTuple(born[r].items[1]), hashseed)
    /\ \A a \in Refs : \A b \in Refs :
          PyEq(born[a].items[1], born[b].items[1])
          => /\ TupleEq(heap[a], heap[b])
             /\ TupleHash(heap[a], hashseed) = TupleHash(heap[b], hashseed)
             /\ ~ (a # b /\ a \in pyset /\ b \in pyset)
    /\ (last.op = "add" /\ last.exc = "")
       => \E k \in pyset : PyEq(born[k].items[1], born[last.a].items[1])

WitnessC9 ==
    /\ last.op = "add" /\ last.a = 2 /\ last.exc = ""
    /\ born[1] = [cls |-> InFile, items |-> <<StrV("x")>>]
    /\ born[2] = [cls |-> OutFile, items |-> <<StrV("x")>>]
    /\ pyset = {1}

\* C10: a successful _replace returns a new record of the same type whose
\* field is the value given, and the record it was called on is as it was
\* constructed.
TheoremC10 ==
    (last.op = "_replace" /\ last.exc = "")
    => /\ last.name = DocField(born[last.a].cls)
       /\ last.ref # last.a
       /\ heap[last.ref] = [cls |-> born[last.a].cls, items |-> <<last.arg>>]
       /\ heap[last.a] = born[last.a]
       /\ GetAttr(heap[last.a], last.name).val = born[last.a].items[1]

WitnessC10 ==
    /\ last.op = "_replace" /\ last.exc = ""
    /\ born[last.a] = [cls |-> TmpFile, items |-> <<StrV("")>>]
    /\ heap[last.ref] = [cls |-> TmpFile, items |-> <<StrV("x")>>]
    /\ heap[last.a].items = <<StrV("")>>

====
